---- MODULE Spec2Model ----
(***************************************************************************)
(* PrioritisedObject (src/src/data/PrioritisedObject.js): a local object   *)
(* two-way bound to one node of a remote data source.                      *)
(*                                                                         *)
(* The object, its EventEmitter listener table and the data source it is   *)
(* bound to are one record `s`; every method of the class is an operator   *)
(* from such a record to the record after the call.  Every operation also  *)
(* appends what it did that is observable from outside (events emitted,    *)
(* handlers called, calls made on the data source) to s.trace, which the   *)
(* actions reset at the start of every public call.                        *)
(***************************************************************************)
EXTENDS Integers, Sequences, FiniteSets

VARIABLES
    obj,      \* the PrioritisedObject, its listeners and its data source
    lastOp,   \* the public call (or remote notification) that produced obj
    alive     \* FALSE once remove() was called: no call on the object is defined then

vars == <<obj, lastOp, alive>>

----------------------------------------------------------------------------
(* Bounds *)

MaxPriority == 1     \* snapshot / written priorities are 1..MaxPriority
MaxPending == 2      \* cap on Len(_accessedKeys), which the code never clears
MaxBody == 2         \* number of statements in a transaction body
MaxListeners == 2    \* listeners registered at the same time (all events)

----------------------------------------------------------------------------
(* Value universes *)

SchemaKeys == {"name", "score"}     \* enumerable own properties declared by the model type
ExtraKey == "extra"                 \* a key of remote data that is no schema field
AllKeys == SchemaKeys \cup {ExtraKey}
NoKey == "undefined"                \* the `key` of _onSetterTriggered() called without argument
Undefined == 0                      \* JS undefined as a field value
Values == {1, 2}
Priorities == 1..MaxPriority

Events == {"ready", "value", "changed", "added", "moved", "removed"}
NoEvent == "undefined"

Passive == {"h1", "h2"}             \* handlers that only observe
Writer == "hw"                      \* a handler that writes a schema field when called
Thrower == "hx"                     \* a handler that throws when called
WriterWrite == [key |-> "name", value |-> 2]
Handlers == Passive \cup {Writer, Thrower}
NoHandler == "undefined"

Self == "this"                      \* the object itself as a listener context
Other == "other"                    \* any other context object
NoContext == "undefined"
Contexts == {Self, Other}

DataSourceKey == "k1"               \* dataSource.key()
Ids == {DataSourceKey, "k2"}        \* values assigned to `id`

----------------------------------------------------------------------------
(* Sequence helpers *)

RECURSIVE SelectIdx(_, _, _)
\* the subsequence of q at the indices i >= from with keep[i]
SelectIdx(q, keep, from) ==
    IF from > Len(q) THEN <<>>
    ELSE (IF keep[from] THEN <<q[from]>> ELSE <<>>) \o SelectIdx(q, keep, from + 1)

Log(s, entry) == [s EXCEPT !.trace = Append(@, entry)]

----------------------------------------------------------------------------
(* Listeners.  A listener is a function and the context it was registered   *)
(* with.  A function is a handler (the same handler is the same function)   *)
(* or the onceWrapper closure of one once() call, which is a new function   *)
(* on every call: `id` tells the closures apart.  A closure keeps the       *)
(* handler and context once() was given.                                    *)

Plain(h, ctx) ==
    [kind |-> "plain", h |-> h, ctx |-> ctx, id |-> 0, octx |-> ctx]
OnceWrapper(id, h, octx) ==
    [kind |-> "once", h |-> h, ctx |-> Self, id |-> id, octx |-> octx]

\* the function of a listener, as removeListener compares it
Fn(l) == [kind |-> l.kind, h |-> l.h, id |-> l.id]
HandlerFn(h) == [kind |-> "plain", h |-> h, id |-> 0]
NoFn == [kind |-> "none", h |-> NoHandler, id |-> 0]

AllListeners(s) == UNION {{s._events[e][i] : i \in 1..Len(s._events[e])} : e \in Events}
NumListeners(s) == Len(s._events["ready"]) + Len(s._events["value"])
                 + Len(s._events["changed"]) + Len(s._events["added"])
                 + Len(s._events["moved"]) + Len(s._events["removed"])
\* an id no registered onceWrapper has
FreshId(s) == CHOOSE i \in 1..(NumListeners(s) + 1) :
                  \A l \in AllListeners(s) : l.kind = "once" => l.id # i

\* EventEmitter.listeners(type, true): whether a listener of the type exists
_hasListenersOfType(s, type) == type \in Events /\ Len(s._events[type]) > 0

\* EventEmitter.on(event, fn, context)
superOn(s, event, l) == [s EXCEPT !._events[event] = Append(@, l)]

\* EventEmitter.removeListener(event, fn, context): only the listeners with another
\* function, or (a context being given) another context, stay; without a function
\* none stays
superRemoveListener(s, event, fn, context) ==
    IF event \notin Events THEN s
    ELSE LET q == s._events[event]
             keep == [i \in 1..Len(q) |->
                         /\ fn # NoFn
                         /\ \/ Fn(q[i]) # fn
                            \/ (context # NoContext /\ q[i].ctx # context)]
         IN [s EXCEPT !._events[event] = SelectIdx(q, keep, 1)]

\* EventEmitter.removeAllListeners(event): of the event, or of every event
superRemoveAllListeners(s, event) ==
    IF event \in Events THEN [s EXCEPT !._events[event] = <<>>]
    ELSE [s EXCEPT !._events = [e \in Events |-> <<>>]]

----------------------------------------------------------------------------
(* The data source (DataSource.js is not part of the sources at hand; its   *)
(* interface is the one the object calls).  Each set/remove pair keeps      *)
(* whether the remote callback is attached.                                 *)

setValueChangedCallback(s) ==
    Log([s EXCEPT !.ds.valueCb = TRUE], [op |-> "setValueChangedCallback"])
removeValueChangedCallback(s) ==
    Log([s EXCEPT !.ds.valueCb = FALSE], [op |-> "removeValueChangedCallback"])
setChildAddedCallback(s) ==
    Log([s EXCEPT !.ds.addedCb = TRUE], [op |-> "setChildAddedCallback"])
removeChildAddedCallback(s) ==
    Log([s EXCEPT !.ds.addedCb = FALSE], [op |-> "removeChildAddedCallback"])
setChildMovedCallback(s) ==
    Log([s EXCEPT !.ds.movedCb = TRUE], [op |-> "setChildMovedCallback"])
removeChildMovedCallback(s) ==
    Log([s EXCEPT !.ds.movedCb = FALSE], [op |-> "removeChildMovedCallback"])
setChildRemovedCallback(s) ==
    Log([s EXCEPT !.ds.removedCb = TRUE], [op |-> "setChildRemovedCallback"])
removeChildChangedCallback(s) ==
    Log([s EXCEPT !.ds.changedCb = FALSE], [op |-> "removeChildChangedCallback"])
\* dataSource.setWithPriority(fields, priority)
setWithPriority(s, data, priority) ==
    Log(s, [op |-> "setWithPriority", data |-> data, priority |-> priority])
\* dataSource.setPriority(priority)
setPriority(s, priority) ==
    Log(s, [op |-> "setPriority", priority |-> priority])
\* dataSource.remove(object)
dsRemove(s) ==
    Log(s, [op |-> "remove"])

----------------------------------------------------------------------------
(* Object properties (ObjectHelper.js is not part of the sources at hand).  *)
(* A schema field is a plain property until addPropertyToObject gives it a  *)
(* shadow value and a setter that calls back; `wired` are those fields.     *)

\* this.shadow exists: addPropertyToObject creates it with the first field it adds,
\* nothing else does
hasShadow(s) == s.wired # {}
\* this.shadow[key]
shadowGet(s, key) == IF key \in s.wired THEN s.fields[key] ELSE Undefined
\* ObjectHelper.getEnumerableProperties(this.shadow)
getEnumerableProperties(s) == [k \in s.wired |-> s.fields[k]]
\* ObjectHelper.addPropertyToObject(this, key, value, true, true, setter, getter)
addPropertyToObject(s, key, value) ==
    [s EXCEPT !.fields[key] = value, !.wired = @ \cup {key}]

----------------------------------------------------------------------------
(* Event arguments: whether the object is the first argument, whether the   *)
(* previous sibling's id follows, and the changed keys and values (defined  *)
(* is FALSE when the argument passed is `undefined`).                       *)

Args(object, prev, defined, keys, vals) ==
    [object |-> object, prev |-> prev, defined |-> defined, keys |-> keys, vals |-> vals]
NoArgs == Args(FALSE, FALSE, TRUE, <<>>, <<>>)
ObjectArgs == Args(TRUE, FALSE, TRUE, <<>>, <<>>)
SiblingArgs == Args(TRUE, TRUE, TRUE, <<>>, <<>>)

----------------------------------------------------------------------------
(* The methods of PrioritisedObject *)

RECURSIVE _onSetterTriggered(_, _), setField(_, _, _), call(_, _, _, _),
          emitFrom(_, _, _, _, _), off(_, _, _, _)

\* `throw`: the exception unwinds every call that is running (no method of the
\* class has a try statement) and reaches the caller of the public call
throw(s) == [s EXCEPT !.thrown = TRUE]

\* disableChangeListener()
disableChangeListener(s) == [s EXCEPT !._changeListenersDisabled = TRUE]

\* enableChangeListener()
enableChangeListener(s) == [s EXCEPT !._changeListenersDisabled = FALSE]

\* this.enableChangeListener() as the statement after a call that left in state s:
\* it runs unless the call has thrown
thenEnableChangeListener(s) == IF s.thrown THEN s ELSE enableChangeListener(s)

\* EventEmitter.emit(event, ...args): the listeners registered when emit is entered
\* are called in order, whatever they register or remove meanwhile
emit(s, event, args) ==
    emitFrom(Log(s, [op |-> "emit", event |-> event, args |-> args]),
             event, args, s._events[event], 1)

emitFrom(s, event, args, snapshot, i) ==
    IF i > Len(snapshot) \/ s.thrown THEN s
    ELSE emitFrom(call(s, event, snapshot[i], args), event, args, snapshot, i + 1)

\* this._dataSource.setWithPriority(getEnumerableProperties(this.shadow),
\* this._priority) as the statement after the emit, unless a listener has thrown
pushShadow(s) ==
    IF s.thrown THEN s
    ELSE setWithPriority(s, getEnumerableProperties(s), s._priority)

\* _onSetterTriggered(key)
\* (without a shadow, `this.shadow[key]` is a TypeError, thrown before the emit)
_onSetterTriggered(s, key) ==
    IF ~s._changeListenersDisabled
    THEN IF ~hasShadow(s) THEN throw(s) ELSE
         LET changedProperties == s._accessedKeys \o <<key>>
             changedValues == [i \in 1..Len(changedProperties) |->
                                  shadowGet(s, changedProperties[i])]
         IN pushShadow(emit(s, "changed",
                            Args(TRUE, FALSE, TRUE, changedProperties, changedValues)))
    ELSE [s EXCEPT !._accessedKeys = Append(@, key)]

\* this[key] = value: a field with a setter stores the value in the shadow and calls
\* back; a field without one is a plain property
setField(s, key, value) ==
    IF key \in s.wired
    THEN _onSetterTriggered([s EXCEPT !.fields[key] = value], key)
    ELSE [s EXCEPT !.fields[key] = value]

\* what a handler does when it is called as (or, under once(), through) the
\* function fn
handlerBody(s, event, fn, h, ctx, args) ==
    LET s1 == Log(s, [op |-> "call", event |-> event, fn |-> fn, h |-> h,
                      ctx |-> ctx, args |-> args])
    IN CASE h = Writer -> setField(s1, WriterWrite.key, WriterWrite.value)
         [] h = Thrower -> throw(s1)
         [] OTHER -> s1

\* once(): function onceWrapper() { this.off(event, onceWrapper, context); ... }
onceWrapper(s, event, l, args) ==
    handlerBody(off(s, event, Fn(l), l.octx), event, Fn(l), l.h, l.octx, args)

\* fn.call(context, ...args) of a registered listener
call(s, event, l, args) ==
    IF l.kind = "once" THEN onceWrapper(s, event, l, args)
    ELSE handlerBody(s, event, Fn(l), l.h, l.ctx, args)

\* off(event, handler, context)
off(s, event, handler, context) ==
    LET s1 == IF event # NoEvent /\ (handler # NoFn \/ context # NoContext)
              THEN superRemoveListener(s, event, handler, context)
              ELSE superRemoveAllListeners(s, event)
    IN IF ~_hasListenersOfType(s1, event)
       THEN CASE event = "value" ->
                     IF ~_hasListenersOfType(s1, "changed")
                     THEN removeValueChangedCallback(s1) ELSE s1
              [] event = "added" -> removeChildAddedCallback(s1)
              [] event = "moved" -> removeChildMovedCallback(s1)
              [] event = "removed" ->
                     IF ~_hasListenersOfType(s1, "value")
                     THEN removeValueChangedCallback(s1) ELSE s1
              [] event = "changed" -> removeChildChangedCallback(s1)
              [] OTHER -> s1
       ELSE s1

\* on(event, handler, context)
on(s, event, l) ==
    LET haveListeners == _hasListenersOfType(s, event)
        s1 == superOn(s, event, l)
    IN CASE event = "ready" ->
                IF s1.ds.ready THEN call(s1, event, l, ObjectArgs) ELSE s1
         [] event = "value" ->
                IF ~haveListeners THEN setValueChangedCallback(s1)
                ELSE IF s1.ds.ready THEN call(s1, event, l, ObjectArgs) ELSE s1
         [] event = "added" ->
                IF haveListeners THEN setChildAddedCallback(s1) ELSE s1
         [] event = "changed" ->
                IF ~_hasListenersOfType(s1, "value")
                THEN setValueChangedCallback(s1) ELSE s1
         [] event = "moved" ->
                IF ~haveListeners THEN setChildMovedCallback(s1) ELSE s1
         [] event = "removed" ->
                IF ~haveListeners THEN setChildRemovedCallback(s1) ELSE s1
         [] OTHER -> s1

\* new Promise(executor): an exception of the executor is caught by the Promise
\* constructor (the promise is rejected); the caller sees none
promiseExecutor(s) == [s EXCEPT !.thrown = FALSE]

\* once(event, handler, context): this.on(...) runs inside the executor of the
\* promise that once() returns
once(s, event, h, context) ==
    promiseExecutor(
        on(s, event,
           OnceWrapper(FreshId(s), h, IF context = NoContext THEN Self ELSE context)))

removeKeepListeners(s) == dsRemove(s)

\* remove()
remove(s) == dsRemove(off(s, NoEvent, NoFn, NoContext))

----------------------------------------------------------------------------
(* Snapshots: the value (a mapping of keys, empty for null), the priority   *)
(* and the key of a remote node.                                            *)

Snapshot(val, priority) == [val |-> val, priority |-> priority, key |-> DataSourceKey]
numChildren(snap) == Cardinality(DOMAIN snap.val)

\* Object.getOwnPropertyDescriptor(this, key) exists and is enumerable
isOwnEnumerable(s, key) == key \in s.own

RECURSIVE buildKeys(_, _, _)
\* for (let key in data) { ... addPropertyToObject ... }
buildKeys(s, data, keys) ==
    IF keys = {} THEN s
    ELSE LET key == CHOOSE k \in keys : TRUE
             s1 == IF isOwnEnumerable(s, key)
                   THEN addPropertyToObject(s, key, data[key]) ELSE s
         IN buildKeys(s1, data, keys \ {key})

\* _buildFromSnapshot(dataSnapshot)
_buildFromSnapshot(s, dataSnapshot) ==
    LET s1 == [s EXCEPT !._priority = dataSnapshot.priority,
                        !._id = IF @ = NoKey THEN dataSnapshot.key ELSE @]
        data == dataSnapshot.val
    IN IF numChildren(dataSnapshot) = 0
       THEN emit([s1 EXCEPT !.ds.ready = TRUE], "ready", NoArgs)
       ELSE emit([buildKeys(s1, data, DOMAIN data) EXCEPT !.ds.ready = TRUE],
                 "ready", NoArgs)

\* _buildFromSnapshotWithoutSynchronizing(dataSnapshot)
_buildFromSnapshotWithoutSynchronizing(s, dataSnapshot) ==
    thenEnableChangeListener(_buildFromSnapshot(disableChangeListener(s), dataSnapshot))

_buildFromDataSourceReadyAtOnce(s) ==
    emit([s EXCEPT !.ds.oncePending = TRUE], "ready", NoArgs)

\* _buildFromDataSource(dataSource): dataSource.once('value', this._buildFromSnapshot)
_buildFromDataSource(s) == [s EXCEPT !.ds.oncePending = TRUE]

\* _getDiffingKeysFromOther(otherObject): the filter looks up array indices, not
\* keys, as properties of the object, and its result is not returned
_getDiffingKeysFromOther(s, otherObject) == [defined |-> FALSE, keys |-> <<>>]

\* this.emit('value', this, previousSiblingID) and, with `changed` listeners,
\* this.emit('changed', this, changedPropertyNames) as the statements after a call
\* that left in state s: they run unless the call has thrown
thenEmitValue(s) == IF s.thrown THEN s ELSE emit(s, "value", SiblingArgs)
thenEmitChanged(s, changedPropertyNames) ==
    IF ~s.thrown /\ _hasListenersOfType(s, "changed")
    THEN emit(s, "changed", Args(TRUE, FALSE, changedPropertyNames.defined,
                                 changedPropertyNames.keys, <<>>))
    ELSE s

\* `every` is the imported lodash function: a truthy value
every == TRUE

_onChildValueStaySuspended(s, dataSnapshot) ==
    emit(disableChangeListener(s), "value", SiblingArgs)

_onChildValueNoSuspend(s, dataSnapshot) ==
    enableChangeListener(emit(s, "value", SiblingArgs))

\* _onChildValue(dataSnapshot, previousSiblingID)
_onChildValue(s, dataSnapshot) ==
    LET s1 == disableChangeListener(s)
        incomingData == dataSnapshot.val
        changedPropertyNames == _getDiffingKeysFromOther(s1, incomingData)
    IN IF every
       THEN thenEnableChangeListener(emit(s1, "value", SiblingArgs))
       ELSE thenEnableChangeListener(
                thenEmitChanged(
                    thenEmitValue(_buildFromSnapshotWithoutSynchronizing(s1, dataSnapshot)),
                    changedPropertyNames))

\* _onChildAdded / _onChildMoved / _onChildRemoved(dataSnapshot, previousSiblingID)
_onChildAdded(s) == emit(s, "added", SiblingArgs)
_onChildMoved(s) == emit(s, "moved", SiblingArgs)
_onChildRemoved(s) == emit(s, "removed", SiblingArgs)

----------------------------------------------------------------------------
(* Transactions.  The method given to transaction() is a sequence of        *)
(* statements; the trace brackets its run with "begin" and "end".  A        *)
(* statement writes a field, calls transaction() again, or makes the data   *)
(* source deliver a value to the callback it has (if it has one).           *)

WriteStmt(key, value) == [stmt |-> "write", key |-> key, value |-> value]
TransactionStmt(body) == [stmt |-> "transaction", body |-> body]
NotifyStmt(snap) == [stmt |-> "remoteValue", snap |-> snap]
ThrowStmt == [stmt |-> "throw"]

RECURSIVE runStmts(_, _, _), transaction(_, _)
\* one statement of method()
runStmt(s, st) ==
    CASE st.stmt = "write" -> setField(s, st.key, st.value)
      [] st.stmt = "transaction" -> transaction(s, st.body)
      [] st.stmt = "remoteValue" ->
             IF s.ds.valueCb THEN _onChildValue(s, st.snap) ELSE s
      [] st.stmt = "throw" -> throw(s)

runStmts(s, method, i) ==
    IF i > Len(method) \/ s.thrown THEN s
    ELSE runStmts(runStmt(s, method[i]), method, i + 1)

\* this.enableChangeListener(); return this._onSetterTriggered(); as the statements
\* after method(), unless method() has thrown
flush(s) ==
    IF s.thrown THEN s
    ELSE _onSetterTriggered(enableChangeListener(Log(s, [op |-> "end"])), NoKey)

\* transaction(method)
transaction(s, method) ==
    flush(runStmts(Log(disableChangeListener(s), [op |-> "begin"]), method, 1))

\* set id(value)
setId(s, value) == [s EXCEPT !._id = value]

\* set priority(value)
setPriorityProperty(s, value) ==
    IF s._priority # value
    THEN setPriority([s EXCEPT !._priority = value], value)
    ELSE s

\* constructor(dataSource, dataSnapshot)
Blank ==
    [_id |-> DataSourceKey,
     _events |-> [e \in Events |-> <<>>],
     _priority |-> 0,
     _changeListenersDisabled |-> FALSE,
     _accessedKeys |-> <<>>,
     fields |-> [k \in SchemaKeys |-> Undefined],
     wired |-> {},
     ds |-> [ready |-> FALSE, oncePending |-> FALSE, valueCb |-> FALSE,
             addedCb |-> FALSE, movedCb |-> FALSE, removedCb |-> FALSE,
             changedCb |-> FALSE],
     own |-> {},
     trace |-> <<>>,
     thrown |-> FALSE]

\* the constructor of the model type declares the schema fields when super(...),
\* the constructor above, has returned: until then the object has none of them
declareSchema(s) == [s EXCEPT !.own = SchemaKeys]

\* new Model(dataSource, dataSnapshot) and new Model(dataSource)
constructorWithSnapshot(dataSnapshot) ==
    declareSchema(_buildFromSnapshot(Blank, dataSnapshot))
constructorWithoutSnapshot == declareSchema(_buildFromDataSource(Blank))

----------------------------------------------------------------------------
(* Inputs *)

\* the values a snapshot can hold: any subset of the keys, the key that is no
\* schema field holding 1
SnapshotVals ==
    UNION {[K -> Values] : K \in SUBSET SchemaKeys}
    \cup UNION {{[k \in K \cup {ExtraKey} |-> IF k = ExtraKey THEN 1 ELSE f[k]] :
                    f \in [K -> Values]} : K \in SUBSET SchemaKeys}
Snapshots == {Snapshot(v, p) : v \in SnapshotVals, p \in Priorities}

\* the snapshot that holds 1 in every schema field, at priority 1
SubSnapshots == {snap \in Snapshots : DOMAIN snap.val = SchemaKeys
                                      /\ \A k \in DOMAIN snap.val : snap.val[k] = 1
                                      /\ snap.priority = 1}

Writes == {WriteStmt(k, v) : k \in SchemaKeys, v \in Values}
Methods == UNION {[1..n -> Writes] : n \in 0..MaxBody}

\* the keys a method writes, in order
IsWrite(st) == st.stmt = "write"
WrittenKeys(method) ==
    LET writes == SelectSeq(method, IsWrite)
    IN [i \in 1..Len(writes) |-> writes[i].key]

\* methods that, between their writes, call transaction() with a method of at most
\* one write, have a remote value delivered, or throw
InnerMethods == {<<>>} \cup {<<w>> : w \in Writes}
NestedStmts ==
    Writes \cup {TransactionStmt(m) : m \in InnerMethods}
           \cup {NotifyStmt(snap) : snap \in SubSnapshots}
           \cup {ThrowStmt}
NestedMethods == UNION {[1..n -> NestedStmts] : n \in 0..MaxBody}
\* the number of field writes a method makes, those of inner methods included
RECURSIVE NumWrites(_)
NumWrites(method) ==
    IF method = <<>> THEN 0
    ELSE (CASE Head(method).stmt = "write" -> 1
            [] Head(method).stmt = "transaction" -> Len(Head(method).body)
            [] OTHER -> 0) + NumWrites(Tail(method))

\* the start of a public call: nothing observed yet, and the exception of the
\* previous call, if any, has reached its caller
Start(s) == [s EXCEPT !.trace = <<>>, !.thrown = FALSE]

----------------------------------------------------------------------------
(* Actions: one per public call and per notification of the data source *)

\* new Model(dataSource) and new Model(dataSource, dataSnapshot)
Construct(snaps) ==
    \/ /\ obj = constructorWithoutSnapshot
       /\ lastOp = [name |-> "constructor"]
    \/ \E snap \in snaps :
          /\ obj = constructorWithSnapshot(snap)
          /\ lastOp = [name |-> "constructor", snap |-> snap]

Init ==
    /\ Construct(Snapshots)
    /\ alive = TRUE

\* the data source delivers the value the constructor asked for with once('value')
FirstValue(snap) ==
    /\ obj.ds.oncePending
    /\ obj' = _buildFromSnapshot([Start(obj) EXCEPT !.ds.oncePending = FALSE], snap)
    /\ lastOp' = [name |-> "firstValue", snap |-> snap]
    /\ UNCHANGED alive

\* the data source calls the value callback
RemoteValue(snap) ==
    /\ obj.ds.valueCb
    /\ obj' = _onChildValue(Start(obj), snap)
    /\ Len(obj'._accessedKeys) <= MaxPending
    /\ lastOp' = [name |-> "remoteValue", snap |-> snap]
    /\ UNCHANGED alive

RemoteChildAdded ==
    /\ obj.ds.addedCb
    /\ obj' = _onChildAdded(Start(obj))
    /\ lastOp' = [name |-> "remoteChildAdded"]
    /\ UNCHANGED alive

RemoteChildMoved ==
    /\ obj.ds.movedCb
    /\ obj' = _onChildMoved(Start(obj))
    /\ lastOp' = [name |-> "remoteChildMoved"]
    /\ UNCHANGED alive

RemoteChildRemoved ==
    /\ obj.ds.removedCb
    /\ obj' = _onChildRemoved(Start(obj))
    /\ lastOp' = [name |-> "remoteChildRemoved"]
    /\ UNCHANGED alive

\* object[key] = value
Write(key, value) ==
    /\ alive
    /\ obj' = setField(Start(obj), key, value)
    /\ Len(obj'._accessedKeys) <= MaxPending
    /\ lastOp' = [name |-> "write", key |-> key, value |-> value]
    /\ UNCHANGED alive

Transaction(method) ==
    /\ alive
    /\ Len(obj._accessedKeys) + NumWrites(method) <= MaxPending
    /\ obj' = transaction(Start(obj), method)
    /\ Len(obj'._accessedKeys) <= MaxPending
    /\ lastOp' = [name |-> "transaction", keys |-> WrittenKeys(method)]
    /\ UNCHANGED alive

DisableChangeListener ==
    /\ alive
    /\ obj' = disableChangeListener(Start(obj))
    /\ lastOp' = [name |-> "disableChangeListener"]
    /\ UNCHANGED alive

EnableChangeListener ==
    /\ alive
    /\ obj' = enableChangeListener(Start(obj))
    /\ lastOp' = [name |-> "enableChangeListener"]
    /\ UNCHANGED alive

On(event, h, ctx) ==
    /\ alive
    /\ NumListeners(obj) < MaxListeners
    /\ obj' = on(Start(obj), event, Plain(h, ctx))
    /\ Len(obj'._accessedKeys) <= MaxPending
    /\ lastOp' = [name |-> "on", event |-> event]
    /\ UNCHANGED alive

Once(event, h, ctx) ==
    /\ alive
    /\ NumListeners(obj) < MaxListeners
    /\ obj' = once(Start(obj), event, h, ctx)
    /\ lastOp' = [name |-> "once", event |-> event]
    /\ UNCHANGED alive

\* off(event, handler, context), any argument possibly left out
Off(event, h, ctx) ==
    /\ alive
    /\ obj' = off(Start(obj), event, IF h = NoHandler THEN NoFn ELSE HandlerFn(h), ctx)
    /\ lastOp' = [name |-> "off", event |-> event]
    /\ UNCHANGED alive

\* object.priority = value
SetPriority(value) ==
    /\ alive
    /\ obj' = setPriorityProperty(Start(obj), value)
    /\ lastOp' = [name |-> "setPriority", value |-> value]
    /\ UNCHANGED alive

\* object.id = value
SetId(value) ==
    /\ alive
    /\ obj' = setId(Start(obj), value)
    /\ lastOp' = [name |-> "setId"]
    /\ UNCHANGED alive

Remove ==
    /\ alive
    /\ obj' = remove(Start(obj))
    /\ lastOp' = [name |-> "remove"]
    /\ alive' = FALSE

----------------------------------------------------------------------------
(* Specifications *)

\* Local mutation: field writes, transactions and the public suspend / resume calls
\* on an object materialized from any snapshot, observed by `changed` listeners.
Next ==
    \/ \E snap \in Snapshots : FirstValue(snap)
    \/ \E k \in SchemaKeys, v \in Values : Write(k, v)
    \/ \E m \in Methods : Transaction(m)
    \/ DisableChangeListener
    \/ EnableChangeListener
    \/ On("changed", "h1", Self)
    \/ \E p \in Priorities : SetPriority(p)
    \/ \E id \in Ids : SetId(id)

Spec == Init /\ [][Next]_vars

\* Remote values: the value callback of the data source between local writes, with
\* `value` and `changed` listeners; a `value` listener may write a field when it is
\* notified.
NextRemote ==
    \/ \E snap \in Snapshots : FirstValue(snap)
    \/ \E snap \in Snapshots : RemoteValue(snap)
    \/ \E k \in SchemaKeys, v \in Values : Write(k, v)
    \/ \E h \in {"h1", Writer} : On("value", h, Self)
    \/ On("changed", "h1", Self)

SpecRemote == Init /\ [][NextRemote]_vars

\* Subscriptions: every on / once / off call with observing handlers, remove(), and
\* the notifications of the data source that deliver the events.
InitSub ==
    /\ Construct(SubSnapshots)
    /\ alive = TRUE

NextSub ==
    \/ \E snap \in SubSnapshots : FirstValue(snap)
    \/ \E snap \in SubSnapshots : RemoteValue(snap)
    \/ RemoteChildAdded
    \/ RemoteChildMoved
    \/ RemoteChildRemoved
    \/ \E e \in Events, c \in Contexts : On(e, "h1", c)
    \/ \E e \in Events, c \in Contexts \cup {NoContext} : Once(e, "h1", c)
    \/ \E e \in Events, h \in Passive \cup {NoHandler},
          c \in Contexts \cup {NoContext} : Off(e, h, c)
    \/ Off(NoEvent, NoHandler, NoContext)
    \/ Remove

SpecSub == InitSub /\ [][NextSub]_vars

\* Re-entrancy and failure: transactions whose method calls transaction() again,
\* has a remote value delivered while it runs, or throws, on an object with
\* `value` and `changed` listeners, of which a `value` listener may throw, also
\* one subscribed with once().  No action calls disableChangeListener().
InitNested ==
    /\ Construct(SubSnapshots)
    /\ alive = TRUE

NextNested ==
    \/ \E snap \in SubSnapshots : FirstValue(snap)
    \/ \E snap \in SubSnapshots : RemoteValue(snap)
    \/ \E k \in SchemaKeys, v \in Values : Write(k, v)
    \/ \E m \in NestedMethods : Transaction(m)
    \/ \E h \in {"h1", Thrower} : On("value", h, Self)
    \/ On("changed", "h1", Self)
    \/ \E e \in {"ready", "value"} : Once(e, Thrower, Self)

SpecNested == InitNested /\ [][NextNested]_vars

----------------------------------------------------------------------------
(* What a trace shows *)

Indices(tr, name) == {i \in 1..Len(tr) : tr[i].op = name}
Pushes(tr) == Indices(tr, "setWithPriority")
EmitsOf(tr, event) == {i \in Indices(tr, "emit") : tr[i].event = event}
CallsOf(tr, h) == {i \in Indices(tr, "call") : tr[i].h = h}
Range(q) == {q[i] : i \in 1..Len(q)}

----------------------------------------------------------------------------
(* Transactions *)

\* C1: a transaction called on an object that is not suspended, whose method only
\* writes schema fields, issues no push while the method runs and exactly one push
\* in all, after the method has returned.
C1_TransactionOnePush ==
    [][(lastOp'.name = "transaction" /\ ~obj._changeListenersDisabled)
        => /\ Cardinality(Pushes(obj'.trace)) = 1
           /\ \A i \in Pushes(obj'.trace) :
                 \A j \in Indices(obj'.trace, "end") : j < i]_vars

\* C2: a transaction whose method writes nothing emits no `changed` event; one
\* whose method writes emits at most one.
C2_NoChangedWithoutWrites ==
    lastOp.name = "transaction"
    => /\ Len(lastOp.keys) = 0 => EmitsOf(obj.trace, "changed") = {}
       /\ Len(lastOp.keys) >= 1 => Cardinality(EmitsOf(obj.trace, "changed")) <= 1

----------------------------------------------------------------------------
(* Remote values *)

\* the schema fields whose value in the snapshot is not the local one
Differing(s, snap) ==
    {k \in DOMAIN snap.val \cap SchemaKeys : s.fields[k] # snap.val[k]}

\* C3: handling a remote value never pushes, whatever the snapshot holds and
\* whatever the `value` listeners write; a pushed local write of V followed by a
\* remote value that reports V for the field makes one push in all.
C3_NoEcho ==
    [][lastOp'.name = "remoteValue"
        => /\ Pushes(obj'.trace) = {}
           /\ (/\ lastOp.name = "write"
               /\ Cardinality(Pushes(obj.trace)) = 1
               /\ lastOp.key \in DOMAIN lastOp'.snap.val
               /\ lastOp'.snap.val[lastOp.key] = lastOp.value)
              => Cardinality(Pushes(obj.trace)) + Cardinality(Pushes(obj'.trace)) = 1]_vars

\* a remote value holding every schema field was handled while a `value` listener
\* wrote a field that has a setter: the key is staged, and the field is the only one
\* that now differs from the snapshot
C3_Witness ==
    /\ lastOp.name = "remoteValue"
    /\ CallsOf(obj.trace, Writer) # {}
    /\ WriterWrite.key \in obj.wired
    /\ obj._accessedKeys # <<>>
    /\ DOMAIN lastOp.snap.val = SchemaKeys
    /\ Differing(obj, lastOp.snap) = {WriterWrite.key}

\* C4: a remote value that differs from the local fields, with a `changed` listener
\* registered, is applied to the fields and emits one `changed` event that carries
\* exactly the differing keys.
C4_RemoteDiffApplied ==
    [][(/\ lastOp'.name = "remoteValue"
        /\ _hasListenersOfType(obj, "changed")
        /\ Differing(obj, lastOp'.snap) # {})
        => /\ \A k \in Differing(obj, lastOp'.snap) :
                 obj'.fields[k] = lastOp'.snap.val[k]
           /\ Cardinality(EmitsOf(obj'.trace, "changed")) = 1
           /\ \A i \in EmitsOf(obj'.trace, "changed") :
                 /\ obj'.trace[i].args.defined
                 /\ Range(obj'.trace[i].args.keys) = Differing(obj, lastOp'.snap)]_vars

----------------------------------------------------------------------------
(* Subscriptions *)

\* C5: as long as a `value` or a `changed` listener is registered, the remote value
\* callback is attached.
C5_ListenerHasValueCallback ==
    (alive /\ (_hasListenersOfType(obj, "value") \/ _hasListenersOfType(obj, "changed")))
    => obj.ds.valueCb

\* C6: when neither a `value` nor a `changed` listener is registered, the remote
\* value callback is not attached.
C6_NoListenerNoValueCallback ==
    (alive /\ ~_hasListenersOfType(obj, "value") /\ ~_hasListenersOfType(obj, "changed"))
    => ~obj.ds.valueCb

\* C7: the remote child-added callback is attached exactly when an `added` listener
\* is registered.
C7_AddedCallbackIffListener ==
    alive => (obj.ds.addedCb <=> _hasListenersOfType(obj, "added"))

\* C8: the remote child-removed callback is attached while a `removed` listener is
\* registered, and is detached once neither a `removed` nor a `value` listener is.
C8_RemovedCallback ==
    alive => /\ _hasListenersOfType(obj, "removed") => obj.ds.removedCb
             /\ (~_hasListenersOfType(obj, "removed") /\ ~_hasListenersOfType(obj, "value"))
                => ~obj.ds.removedCb

\* C9: a handler given to once() is delivered at most once per emission, and the
\* wrapper that delivered it is no longer registered afterwards (so no later
\* emission reaches the handler), whatever context once() was given.
C9_OnceDeliversOnce ==
    \A i \in Indices(obj.trace, "call") :
        obj.trace[i].fn.kind = "once"
        => /\ \A l \in Range(obj._events[obj.trace[i].event]) : Fn(l) # obj.trace[i].fn
           /\ \A j \in Indices(obj.trace, "call") :
                 obj.trace[j].fn = obj.trace[i].fn => j = i

\* C10: after remove() no listener of any event is registered and one remote delete
\* was requested.
C10_RemoveClearsListeners ==
    lastOp.name = "remove"
    => /\ NumListeners(obj) = 0
       /\ Cardinality(Indices(obj.trace, "remove")) = 1

\* remove() was called on an object that had `value` and `moved` listeners (their
\* remote callbacks were attached)
C10_Witness ==
    /\ lastOp.name = "remove"
    /\ obj.ds.valueCb /\ obj.ds.movedCb
    /\ NumListeners(obj) = 0

----------------------------------------------------------------------------
(* Materialization *)

\* whether the object was constructed with a snapshot
BuiltFromSnapshot == lastOp.name = "constructor" /\ "snap" \in DOMAIN lastOp

\* C11: after construction from a snapshot with at least one child, every schema
\* field present in the snapshot holds the snapshot's value, no key that is not a
\* schema field was added to the object, and the priority is the snapshot's.
C11_BuiltFromSnapshot ==
    (BuiltFromSnapshot /\ numChildren(lastOp.snap) >= 1)
    => /\ \A k \in SchemaKeys \cap DOMAIN lastOp.snap.val :
             k \in obj.wired /\ obj.fields[k] = lastOp.snap.val[k]
       /\ obj.wired = SchemaKeys \cap DOMAIN lastOp.snap.val
       /\ DOMAIN obj.fields = SchemaKeys
       /\ obj._priority = lastOp.snap.priority

----------------------------------------------------------------------------
(* Local writes *)

\* C12: a write of schema field k on an object that is not suspended and has no
\* staged key emits exactly one `changed` event whose keys are [k] with the value
\* written, and then pushes once, the push carrying the current value of every
\* schema field and the current priority.
C12_WriteEmitsAndPushesAll ==
    [][(/\ lastOp'.name = "write"
        /\ ~obj._changeListenersDisabled
        /\ obj._accessedKeys = <<>>)
        => /\ Cardinality(EmitsOf(obj'.trace, "changed")) = 1
           /\ Cardinality(Pushes(obj'.trace)) = 1
           /\ \A i \in EmitsOf(obj'.trace, "changed") :
                 /\ obj'.trace[i].args.keys = <<lastOp'.key>>
                 /\ obj'.trace[i].args.vals = <<lastOp'.value>>
                 /\ \A j \in Pushes(obj'.trace) :
                       /\ i < j
                       /\ obj'.trace[j].data = [k \in SchemaKeys |-> obj'.fields[k]]
                       /\ obj'.trace[j].priority = obj'._priority]_vars

\* C13: every flush clears the staged keys: after a field write on an object that
\* is not suspended, and after every transaction, _accessedKeys is empty.
C13_FlushClearsPending ==
    (\/ lastOp.name = "transaction"
     \/ (lastOp.name = "write" /\ ~obj._changeListenersDisabled))
    => obj._accessedKeys = <<>>

\* C14: writing `priority` always calls setPriority on the data source with the
\* value written, whatever the value and whether or not the object is suspended;
\* it stages no key, emits no `changed` event and pushes no fields.
C14_PriorityWriteImmediate ==
    [][lastOp'.name = "setPriority"
        => /\ Cardinality(Indices(obj'.trace, "setPriority")) = 1
           /\ \A i \in Indices(obj'.trace, "setPriority") :
                 obj'.trace[i].priority = lastOp'.value
           /\ obj'._priority = lastOp'.value
           /\ obj'._accessedKeys = obj._accessedKeys
           /\ EmitsOf(obj'.trace, "changed") = {}
           /\ Pushes(obj'.trace) = {}]_vars

----------------------------------------------------------------------------
(* Subscriptions: frame conditions *)

\* C15: off() of an event type that has no listener changes nothing: the listeners
\* of every event and the remote callbacks attached are what they were, whatever
\* listeners the other event types have.
C15_OffWithoutListenersIsNoOp ==
    [][(/\ lastOp'.name = "off"
        /\ lastOp'.event \in Events
        /\ ~_hasListenersOfType(obj, lastOp'.event))
        => /\ obj'._events = obj._events
           /\ obj'.ds = obj.ds]_vars

----------------------------------------------------------------------------
(* Readiness *)

\* the calls of `ready` listeners made by the last operation
ReadyCalls(tr) == {i \in Indices(tr, "call") : tr[i].event = "ready"}

\* C16: an object constructed without a snapshot has no field populated, is not
\* ready and has emitted no `ready` event as long as the first value of the data
\* source has not arrived; the arrival populates the fields of the snapshot, marks
\* the data source ready and emits `ready` once; a `ready` listener subscribed to an
\* object that is ready is called at once, one time.
C16_ReadyAfterFirstValue ==
    /\ obj.ds.oncePending
       => /\ obj.wired = {}
          /\ \A k \in SchemaKeys : obj.fields[k] = Undefined
          /\ ~obj.ds.ready
          /\ EmitsOf(obj.trace, "ready") = {}
          /\ ReadyCalls(obj.trace) = {}
    /\ lastOp.name = "firstValue"
       => /\ ~obj.ds.oncePending
          /\ obj.ds.ready
          /\ obj.wired = SchemaKeys \cap DOMAIN lastOp.snap.val
          /\ \A k \in obj.wired : obj.fields[k] = lastOp.snap.val[k]
          /\ Cardinality(EmitsOf(obj.trace, "ready")) = 1
    /\ (lastOp.name \in {"on", "once"} /\ lastOp.event = "ready" /\ obj.ds.ready)
       => /\ Cardinality(ReadyCalls(obj.trace)) = 1
          /\ Indices(obj.trace, "call") = ReadyCalls(obj.trace)

\* the first value arrived at an object that had a `ready` listener, which was
\* called
C16_Witness ==
    /\ lastOp.name = "firstValue"
    /\ obj.ds.ready
    /\ ReadyCalls(obj.trace) # {}

\* a `ready` listener was subscribed to a ready object and called at once
C16_WitnessImmediate ==
    /\ lastOp.name = "on"
    /\ lastOp.event = "ready"
    /\ obj.ds.ready
    /\ ReadyCalls(obj.trace) # {}

----------------------------------------------------------------------------
(* What a flush reports *)

\* C17: the `changed` event of a transaction that has flushed, whose method writes
\* at least one field, carries exactly the names of the fields the method wrote,
\* every one a schema field, each with the value the field holds.
C17_TransactionChangedKeys ==
    (lastOp.name = "transaction" /\ Len(lastOp.keys) >= 1 /\ ~obj.thrown)
    => /\ Cardinality(EmitsOf(obj.trace, "changed")) = 1
       /\ \A i \in EmitsOf(obj.trace, "changed") :
             LET keys == obj.trace[i].args.keys
                 vals == obj.trace[i].args.vals
             IN /\ Range(keys) = Range(lastOp.keys)
                /\ Range(keys) \subseteq SchemaKeys
                /\ Len(vals) = Len(keys)
                /\ \A j \in 1..Len(keys) :
                      keys[j] \in SchemaKeys => vals[j] = obj.fields[keys[j]]

----------------------------------------------------------------------------
(* Events of a remote value *)

\* C18: handling a remote value emits exactly one `value` event, with the object
\* and the previous sibling's id as arguments, whether or not the snapshot differs
\* from the fields and whether or not a `changed` listener is registered; the
\* object is not suspended when the handler has returned.
C18_RemoteValueEmitsValue ==
    lastOp.name = "remoteValue"
    => /\ Cardinality(EmitsOf(obj.trace, "value")) = 1
       /\ \A i \in EmitsOf(obj.trace, "value") : obj.trace[i].args = SiblingArgs
       /\ \A i \in Indices(obj.trace, "call") :
             obj.trace[i].event = "value" => obj.trace[i].args = SiblingArgs
       /\ ~obj._changeListenersDisabled

\* a remote value that differs from the fields was handled with a `changed`
\* listener registered, and a `value` listener was called
C18_Witness ==
    /\ lastOp.name = "remoteValue"
    /\ Differing(obj, lastOp.snap) # {}
    /\ _hasListenersOfType(obj, "changed")
    /\ \E i \in Indices(obj.trace, "call") : obj.trace[i].event = "value"

\* a remote value equal to the fields was handled without a `changed` listener
C18_WitnessEqual ==
    /\ lastOp.name = "remoteValue"
    /\ DOMAIN lastOp.snap.val = SchemaKeys
    /\ Differing(obj, lastOp.snap) = {}
    /\ ~_hasListenersOfType(obj, "changed")
    /\ EmitsOf(obj.trace, "value") # {}

----------------------------------------------------------------------------
(* Identity *)

\* C19: once the id of the object is set, no public operation changes it: no
\* materialization, remote notification, field write, transaction, subscription
\* or assignment to a property of the object.
C19_IdNeverChanges ==
    [][obj._id # NoKey => obj'._id = obj._id]_vars

----------------------------------------------------------------------------
(* Event arguments *)

\* C20: every call of a listener, of every event and both on emission and on the
\* immediate delivery at subscription, has the object as its first argument.
C20_ObjectIsFirstArgument ==
    \A i \in Indices(obj.trace, "call") : obj.trace[i].args.object

----------------------------------------------------------------------------
(* Removal and the remote callbacks *)

\* C22: after remove() no remote callback is attached: the value, child-added,
\* child-moved and child-removed callbacks that on() attached were detached, so
\* that no notification of the data source reaches the removed object.
C22_RemoveDetachesCallbacks ==
    lastOp.name = "remove"
    => /\ ~obj.ds.valueCb
       /\ ~obj.ds.addedCb
       /\ ~obj.ds.movedCb
       /\ ~obj.ds.removedCb

----------------------------------------------------------------------------
(* Re-entrancy *)

\* C21: a transaction stays suspended until its own method has returned, also when
\* the method calls transaction() again or a remote value is handled while it
\* runs: when the method has returned, nothing was pushed before its end and the
\* outer transaction has pushed exactly once.
C21_NestedStaysSuspended ==
    (lastOp.name = "transaction" /\ ~obj.thrown)
    => /\ Cardinality(Pushes(obj.trace)) = 1
       /\ \A i \in Pushes(obj.trace) :
             \A j \in Indices(obj.trace, "end") : j < i

----------------------------------------------------------------------------
(* Failure *)

\* C23: suspension is released on every exit path: when no transaction method and
\* no remote value handler is running, the object is not suspended unless
\* disableChangeListener() was called, also after a transaction method or a
\* `value` listener has thrown; a later write of a field with a setter is pushed.
C23_BracketReleased ==
    [][/\ ~obj'._changeListenersDisabled
       /\ (lastOp'.name = "write" /\ lastOp'.key \in obj.wired)
          => Cardinality(Pushes(obj'.trace)) = 1]_vars

====
